---- MODULE Spec2Model ----
(***************************************************************************)
(* short-link (src/shorturl.py): a command-line URL shortener that keeps a *)
(* bounded history of shortened links in url_history.json.                 *)
(*                                                                         *)
(* Strings the program inspects (URLs, response texts, typed numbers) are  *)
(* sequences of one-character strings, so that urlparse, the substring     *)
(* test `"Error" in text` and str.isdigit/int are computed, not assumed.   *)
(* Python's None is the empty tuple and a present optional value v is the  *)
(* one-element tuple <<v>>.                                                *)
(*                                                                         *)
(* Time is in whole seconds.  The clock advances while the program waits   *)
(* for input; an operation reads it once, after its shorten_url call.  The *)
(* sleeps of shorten_url are counted in its frame.                         *)
(*                                                                         *)
(* Spec is the menu loop, one action per handler.  SpecCall runs one       *)
(* shorten_url call statement by statement, on any text and any outcome of *)
(* its requests; FairSpecCall adds that the statements get to run, i.e.    *)
(* that every request returns or raises.                                   *)
(***************************************************************************)
EXTENDS Integers, Sequences, FiniteSets, TLC

\* ------------------------------------------------------------------ bounds
\* The clock runs from 1 to MaxTime.
MaxTime == 3
\* A run appends at most MaxStreak entries in a row.
MaxStreak == 6
\* A run with the varied inputs appends only while the history holds fewer
\* than WideRoom entries.
WideRoom == 2

\* ------------------------------------------------------- program constants
MAX_HISTORY_SIZE == 5
\* range(3) in shorten_url
MaxAttempts == 3
\* time.sleep(1) in shorten_url
SleepSeconds == 1
\* the one-hour window of remind_expiring_links
ReminderWindow == 3600

\* ----------------------------------------------------------------- values
None == <<>>
Some(v) == <<v>>

\* Python truthiness of an optional number: None, 0 and 0.0 are falsy.
Truthy(v) == v # None /\ v # Some(0)

\* Python truthiness of a str: only "" is falsy.
TruthyStr(s) == s # <<>>

\* `sub in s` for strings.
Contains(s, sub) ==
    \E i \in 1..(Len(s) - Len(sub) + 1) : SubSeq(s, i, i + Len(sub) - 1) = sub

\* str.find(c) + 1: the first position of character c in s, 0 when absent.
Find(s, c) ==
    IF \E i \in 1..Len(s) : s[i] = c
    THEN CHOOSE i \in 1..Len(s) : s[i] = c /\ \A j \in 1..(i - 1) : s[j] # c
    ELSE 0

\* The first position >= from of any character of set cs in s, Len(s)+1 when absent.
FindAny(s, cs, from) ==
    IF \E i \in from..Len(s) : s[i] \in cs
    THEN CHOOSE i \in from..Len(s) : s[i] \in cs /\ \A j \in from..(i - 1) : s[j] \notin cs
    ELSE Len(s) + 1

Lower == {"a", "b", "c", "d", "e", "f", "g", "h", "i", "j", "k", "l", "m",
          "n", "o", "p", "q", "r", "s", "t", "u", "v", "w", "x", "y", "z"}
Upper == {"A", "B", "C", "D", "E", "F", "G", "H", "I", "J", "K", "L", "M",
          "N", "O", "P", "Q", "R", "S", "T", "U", "V", "W", "X", "Y", "Z"}
Digits == {"0", "1", "2", "3", "4", "5", "6", "7", "8", "9"}
\* urllib.parse.scheme_chars
SchemeChars == Lower \cup Upper \cup Digits \cup {"+", "-", "."}

\* str.isdigit() on the typed field: non-empty and all digits.
IsDigit(s) == Len(s) > 0 /\ \A i \in 1..Len(s) : s[i] \in Digits

DigitVal(c) ==
    CASE c = "0" -> 0 [] c = "1" -> 1 [] c = "2" -> 2 [] c = "3" -> 3
      [] c = "4" -> 4 [] c = "5" -> 5 [] c = "6" -> 6 [] c = "7" -> 7
      [] c = "8" -> 8 [] c = "9" -> 9

\* int(s) for an all-digit string.
RECURSIVE ParseInt(_)
ParseInt(s) ==
    IF Len(s) = 0 THEN 0
    ELSE 10 * ParseInt(SubSeq(s, 1, Len(s) - 1)) + DigitVal(s[Len(s)])

\* time.ctime(t): the human-readable form of a time, kept apart from the number.
Ctime(t) == [ctime |-> t]

\* ------------------------------------------------------------ URL validator
\* urlparse(url): scheme up to the first ":" when it starts with a letter and
\* is made of scheme characters; netloc after a leading "//" up to the first
\* of "/", "?", "#"; ValueError for an unbalanced "[" or "]" in the netloc.
urlparse(url) ==
    LET i      == Find(url, ":")
        hasSch == i > 1 /\ url[1] \in (Lower \cup Upper)
                        /\ \A k \in 1..(i - 1) : url[k] \in SchemeChars
        scheme == IF hasSch THEN SubSeq(url, 1, i - 1) ELSE <<>>
        rest   == IF hasSch THEN SubSeq(url, i + 1, Len(url)) ELSE url
        hasNet == Len(rest) >= 2 /\ SubSeq(rest, 1, 2) = <<"/", "/">>
        delim  == FindAny(rest, {"/", "?", "#"}, 3)
        netloc == IF hasNet THEN SubSeq(rest, 3, delim - 1) ELSE <<>>
        open   == \E k \in 1..Len(netloc) : netloc[k] = "["
        close  == \E k \in 1..Len(netloc) : netloc[k] = "]"
    IN  [error  |-> (open /\ ~close) \/ (close /\ ~open),
         scheme |-> scheme,
         netloc |-> netloc]

\* is_valid_url asking for a scheme only.
is_valid_url_SchemeOnly(url) ==
    LET result == urlparse(url)
    IN  ~result.error /\ TruthyStr(result.scheme)

is_valid_url(url) ==
    LET result == urlparse(url)
    IN  IF result.error THEN FALSE
        ELSE TruthyStr(result.scheme) /\ TruthyStr(result.netloc)

\* --------------------------------------------------------- shortening client
STR_ERROR == <<"E", "r", "r", "o", "r">>
INVALID_URL_FORMAT ==
    <<"I", "n", "v", "a", "l", "i", "d", " ", "U", "R", "L", " ",
      "f", "o", "r", "m", "a", "t", ".">>
HTTP_ERROR_PREFIX == <<"H", "T", "T", "P", " ", "E", "r", "r", "o", "r", ":", " ">>
CONNECTION_ERROR_PREFIX ==
    <<"C", "o", "n", "n", "e", "c", "t", "i", "o", "n", " ",
      "E", "r", "r", "o", "r", ":", " ">>
REQUEST_ERROR_PREFIX ==
    <<"R", "e", "q", "u", "e", "s", "t", " ", "E", "r", "r", "o", "r", ":", " ">>

\* What one GET of the shortening endpoint can do: answer with a body
\* (status 2xx), or raise HTTPError, ConnectionError or another
\* RequestException; text is the body or the exception's message.
OkBody      == [kind |-> "ok",   text |-> <<"t", ".", "c", "o", "/", "x">>]
OkErrorBody == [kind |-> "ok",   text |-> <<"E", "r", "r", "o", "r">>]
HttpFail    == [kind |-> "http", text |-> <<"5", "0", "0">>]
ConnFail    == [kind |-> "conn", text |-> <<"d", "o", "w", "n">>]
ReqFail     == [kind |-> "req",  text |-> <<"s", "l", "o", "w">>]
Outcomes == {OkBody, OkErrorBody, HttpFail, ConnFail, ReqFail}

\* get_short_url(api_url, long_url) when the request ends as outcome o.
get_short_url(o) ==
    CASE o.kind = "ok"   -> o.text
      [] o.kind = "http" -> HTTP_ERROR_PREFIX \o o.text
      [] o.kind = "conn" -> CONNECTION_ERROR_PREFIX \o o.text
      [] o.kind = "req"  -> REQUEST_ERROR_PREFIX \o o.text

\* shorten_url as a frame: pc is the position in the function, i the loop
\* index of range(3), short_url the last text obtained, calls the requests
\* made and sleeps the time.sleep(1) calls made so far; texts lists the text
\* of every attempt in order.
ShEntry(long_url) ==
    [pc |-> "entry", long_url |-> long_url, i |-> 0, short_url |-> <<>>,
     calls |-> 0, sleeps |-> 0, texts |-> <<>>]

\* ShValidate without the validity test.
ShValidate_NoCheck(f) ==
    [f EXCEPT !.pc = IF f.i < MaxAttempts THEN "request" ELSE "returned"]

\* if not is_valid_url(long_url): return "Invalid URL format."
ShValidate(f) ==
    IF ~is_valid_url(f.long_url)
    THEN [f EXCEPT !.pc = "returned", !.short_url = INVALID_URL_FORMAT]
    ELSE [f EXCEPT !.pc = IF f.i < MaxAttempts THEN "request" ELSE "returned"]

\* short_url = get_short_url(...); if "Error" not in short_url: return short_url
ShRequest(f, o) ==
    LET short_url == get_short_url(o)
    IN  [f EXCEPT !.short_url = short_url,
                  !.calls = @ + 1,
                  !.texts = Append(@, short_url),
                  !.pc = IF ~Contains(short_url, STR_ERROR) THEN "returned" ELSE "sleep"]

\* ShSleep with a loop that runs one more time.
ShSleep_OneMore(f) ==
    [f EXCEPT !.sleeps = @ + 1,
              !.i = @ + 1,
              !.pc = IF f.i + 1 <= MaxAttempts THEN "request" ELSE "returned"]

\* time.sleep(1), then the next iteration of the loop or the final return.
ShSleep(f) ==
    [f EXCEPT !.sleeps = @ + 1,
              !.i = @ + 1,
              !.pc = IF f.i + 1 < MaxAttempts THEN "request" ELSE "returned"]

\* Runs a frame to its return, the k-th request ending as resp[k]; a frame
\* left at "request" means resp holds fewer outcomes than the call needs.
RECURSIVE ShRun(_, _)
ShRun(f, resp) ==
    CASE f.pc = "entry"   -> ShRun(ShValidate(f), resp)
      [] f.pc = "request" -> IF f.calls + 1 > Len(resp) THEN f
                             ELSE ShRun(ShRequest(f, resp[f.calls + 1]), resp)
      [] f.pc = "sleep"   -> ShRun(ShSleep(f), resp)
      [] OTHER            -> f

\* shorten_url(long_url) under the outcomes resp.
shorten_url(long_url, resp) == ShRun(ShEntry(long_url), resp)

\* resp is exactly what the call requested.
Served(r, resp) == r.pc = "returned" /\ r.calls = Len(resp)

\* ------------------------------------------------------------ history store
\* The history file: exists is os.path.exists(HISTORY_FILE), history the JSON
\* array it holds.
NoFile == [exists |-> FALSE, history |-> <<>>]

\* history[:n] in place of history[-n:]
LastN_Oldest(s, n) == IF Len(s) > n THEN SubSeq(s, 1, n) ELSE s

\* history[-n:] for n > 0
LastN(s, n) == IF Len(s) > n THEN SubSeq(s, Len(s) - n + 1, Len(s)) ELSE s

\* IsExpired with >= in place of >
IsExpired_AtExpiry(entry, current_time) ==
    Truthy(entry.expiry_timestamp) /\ current_time >= entry.expiry_timestamp[1]

\* entry.get("expiry_timestamp") and current_time > entry["expiry_timestamp"]
IsExpired(entry, current_time) ==
    Truthy(entry.expiry_timestamp) /\ current_time > entry.expiry_timestamp[1]

\* Unexpired as a loop that removes from the list it walks, and so never
\* tests the entry that follows a removed one.
RECURSIVE Unexpired_SkipNext(_, _)
Unexpired_SkipNext(history, current_time) ==
    IF history = <<>> THEN <<>>
    ELSE IF IsExpired(Head(history), current_time)
         THEN IF Tail(history) = <<>> THEN <<>>
              ELSE <<Head(Tail(history))>>
                   \o Unexpired_SkipNext(Tail(Tail(history)), current_time)
         ELSE <<Head(history)>> \o Unexpired_SkipNext(Tail(history), current_time)

\* [entry for entry in history if not (expired at current_time)]
RECURSIVE Unexpired(_, _)
Unexpired(history, current_time) ==
    IF history = <<>> THEN <<>>
    ELSE IF IsExpired(Head(history), current_time)
         THEN Unexpired(Tail(history), current_time)
         ELSE <<Head(history)>> \o Unexpired(Tail(history), current_time)

\* The dict save_to_history appends.
NewEntry(long_url, short_url, custom_name, expiry_seconds, t) ==
    [long_url |-> long_url, short_url |-> short_url, timestamp |-> Ctime(t),
     custom_name |-> custom_name,
     expiry_timestamp |-> IF Truthy(expiry_seconds)
                          THEN Some(t + expiry_seconds[1]) ELSE None]

\* save_to_history making room by dropping the expired entries first.
save_to_history_EvictExpired(f, long_url, short_url, custom_name, expiry_seconds, t) ==
    LET history == IF f.exists THEN f.history ELSE <<>>
        grown   == Append(history,
                          NewEntry(long_url, short_url, custom_name, expiry_seconds, t))
    IN  [exists |-> TRUE,
         history |-> IF Len(grown) > MAX_HISTORY_SIZE
                     THEN LastN(Unexpired(grown, t), MAX_HISTORY_SIZE) ELSE grown]

\* save_to_history without the truncation.
save_to_history_NoBound(f, long_url, short_url, custom_name, expiry_seconds, t) ==
    LET history == IF f.exists THEN f.history ELSE <<>>
    IN  [exists |-> TRUE,
         history |-> Append(history,
                            NewEntry(long_url, short_url, custom_name, expiry_seconds, t))]

\* save_to_history(long_url, short_url, custom_name, expiry_seconds) at time t
\* on file f: the file it writes.
save_to_history(f, long_url, short_url, custom_name, expiry_seconds, t) ==
    LET history == IF f.exists THEN f.history ELSE <<>>
        grown   == Append(history,
                          NewEntry(long_url, short_url, custom_name, expiry_seconds, t))
    IN  [exists |-> TRUE,
         history |-> IF Len(grown) > MAX_HISTORY_SIZE
                     THEN LastN(grown, MAX_HISTORY_SIZE) ELSE grown]

\* What an operation prints: a message, the rows of the history table, the
\* reminder notices.
Out(msg, rows) == [msg |-> msg, rows |-> rows]
NEVER == [text |-> "Never"]

\* The table row of an entry.
Row(entry) ==
    [name |-> entry.custom_name, long_url |-> entry.long_url,
     short_url |-> entry.short_url, timestamp |-> entry.timestamp,
     expiry |-> IF Truthy(entry.expiry_timestamp)
                THEN Ctime(entry.expiry_timestamp[1]) ELSE NEVER]

\* Rows without the skip of expired entries.
Rows_All(history, current_time) == [k \in 1..Len(history) |-> Row(history[k])]

RECURSIVE Rows(_, _)
\* The rows show_history adds: the entries not expired at current_time.
Rows(history, current_time) ==
    IF history = <<>> THEN <<>>
    ELSE IF IsExpired(Head(history), current_time)
         THEN Rows(Tail(history), current_time)
         ELSE <<Row(Head(history))>> \o Rows(Tail(history), current_time)

\* show_history() on file f at time t: what it prints.
show_history(f, t) ==
    IF ~f.exists THEN Out("History not found.", <<>>)
    ELSE IF f.history = <<>> THEN Out("No history available.", <<>>)
    ELSE Out("URL History", Rows(f.history, t))

\* delete_expired_links() on file f at time t: the file afterwards.
delete_expired_links(f, t) ==
    IF ~f.exists THEN f
    ELSE [exists |-> TRUE, history |-> Unexpired(f.history, t)]

\* The reminder printed for an entry.
Notice(entry) ==
    [short_url |-> entry.short_url, long_url |-> entry.long_url,
     expires |-> Ctime(entry.expiry_timestamp[1])]

\* IsExpiring passing over the entries already expired.
IsExpiring_Upcoming(entry, current_time) ==
    /\ Truthy(entry.expiry_timestamp)
    /\ entry.expiry_timestamp[1] - current_time <= ReminderWindow
    /\ entry.expiry_timestamp[1] >= current_time

\* expiry_timestamp and (expiry_timestamp - current_time) <= 3600
IsExpiring(entry, current_time) ==
    /\ Truthy(entry.expiry_timestamp)
    /\ entry.expiry_timestamp[1] - current_time <= ReminderWindow

RECURSIVE Notices(_, _)
Notices(history, current_time) ==
    IF history = <<>> THEN <<>>
    ELSE IF IsExpiring(Head(history), current_time)
         THEN <<Notice(Head(history))>> \o Notices(Tail(history), current_time)
         ELSE Notices(Tail(history), current_time)

\* remind_expiring_links() on file f at time t: what it prints.
remind_expiring_links(f, t) ==
    IF ~f.exists THEN Out("History not found.", <<>>)
    ELSE Out("", Notices(f.history, t))

\* FirstMatch settling for the first named entry.
FirstMatch_AnyName(history, custom_name) ==
    IF \E k \in 1..Len(history) : history[k].custom_name # None
    THEN CHOOSE k \in 1..Len(history) :
            /\ history[k].custom_name # None
            /\ \A j \in 1..(k - 1) : history[j].custom_name = None
    ELSE 0

\* FirstMatch settling for the last entry of that name.
FirstMatch_Last(history, custom_name) ==
    IF \E k \in 1..Len(history) : history[k].custom_name = Some(custom_name)
    THEN CHOOSE k \in 1..Len(history) :
            /\ history[k].custom_name = Some(custom_name)
            /\ \A j \in (k + 1)..Len(history) : history[j].custom_name # Some(custom_name)
    ELSE 0

\* The index of the first entry whose custom_name equals the given name, 0
\* when there is none (the for loop of update_link up to its break).
FirstMatch(history, custom_name) ==
    IF \E k \in 1..Len(history) : history[k].custom_name = Some(custom_name)
    THEN CHOOSE k \in 1..Len(history) :
            /\ history[k].custom_name = Some(custom_name)
            /\ \A j \in 1..(k - 1) : history[j].custom_name # Some(custom_name)
    ELSE 0

\* What a caller sees of a returned shorten_url call: the text returned, the
\* requests and the sleeps it made.
Result(f) == [short_url |-> f.short_url, calls |-> f.calls, sleeps |-> f.sleeps]

\* No shorten_url call made.
NoCall == [short_url |-> <<>>, calls |-> 0, sleeps |-> 0]

\* update_link going on to the expiry and the write after an invalid new URL.
update_link_NoAbort(f, custom_name, new_long_url, new_expiry_seconds, r, t) ==
    IF ~f.exists
    THEN [file |-> f, msg |-> "History not found.", r |-> NoCall, wrote |-> FALSE]
    ELSE
    LET history == f.history
        k       == FirstMatch(history, custom_name)
    IN  IF k = 0
        THEN [file |-> f, msg |-> "Link not found.", r |-> NoCall, wrote |-> FALSE]
        ELSE
        LET e1 == IF new_long_url # None /\ is_valid_url(new_long_url[1])
                  THEN [history[k] EXCEPT !.long_url = new_long_url[1],
                                          !.short_url = r.short_url]
                  ELSE history[k]
            e2 == IF new_expiry_seconds # None
                  THEN [e1 EXCEPT !.expiry_timestamp = Some(t + new_expiry_seconds[1])]
                  ELSE e1
        IN  [file |-> [exists |-> TRUE, history |-> [history EXCEPT ![k] = e2]],
             msg |-> "Link updated successfully.",
             r |-> IF new_long_url # None /\ is_valid_url(new_long_url[1])
                   THEN r ELSE NoCall,
             wrote |-> TRUE]


\* update_link testing the new seconds by truthiness, as save_to_history does.
update_link_TruthyExpiry(f, custom_name, new_long_url, new_expiry_seconds, r, t) ==
    IF ~f.exists
    THEN [file |-> f, msg |-> "History not found.", r |-> NoCall, wrote |-> FALSE]
    ELSE
    LET history == f.history
        k       == FirstMatch(history, custom_name)
    IN  IF k = 0
        THEN [file |-> f, msg |-> "Link not found.", r |-> NoCall, wrote |-> FALSE]
        ELSE IF new_long_url # None /\ ~is_valid_url(new_long_url[1])
        THEN [file |-> f, msg |-> "New URL is not valid.", r |-> NoCall,
              wrote |-> FALSE]
        ELSE
        LET e1 == IF new_long_url # None
                  THEN [history[k] EXCEPT !.long_url = new_long_url[1],
                                          !.short_url = r.short_url]
                  ELSE history[k]
            e2 == IF Truthy(new_expiry_seconds)
                  THEN [e1 EXCEPT !.expiry_timestamp = Some(t + new_expiry_seconds[1])]
                  ELSE e1
        IN  [file |-> [exists |-> TRUE, history |-> [history EXCEPT ![k] = e2]],
             msg |-> "Link updated successfully.",
             r |-> IF new_long_url # None THEN r ELSE NoCall, wrote |-> TRUE]

\* update_link keeping the old short URL when shorten_url returns an error text.
update_link_SkipError(f, custom_name, new_long_url, new_expiry_seconds, r, t) ==
    IF ~f.exists
    THEN [file |-> f, msg |-> "History not found.", r |-> NoCall, wrote |-> FALSE]
    ELSE
    LET history == f.history
        k       == FirstMatch(history, custom_name)
    IN  IF k = 0
        THEN [file |-> f, msg |-> "Link not found.", r |-> NoCall, wrote |-> FALSE]
        ELSE IF new_long_url # None /\ ~is_valid_url(new_long_url[1])
        THEN [file |-> f, msg |-> "New URL is not valid.", r |-> NoCall,
              wrote |-> FALSE]
        ELSE
        LET e1 == IF new_long_url # None /\ ~Contains(r.short_url, STR_ERROR)
                  THEN [history[k] EXCEPT !.long_url = new_long_url[1],
                                          !.short_url = r.short_url]
                  ELSE history[k]
            e2 == IF new_expiry_seconds # None
                  THEN [e1 EXCEPT !.expiry_timestamp = Some(t + new_expiry_seconds[1])]
                  ELSE e1
        IN  [file |-> [exists |-> TRUE, history |-> [history EXCEPT ![k] = e2]],
             msg |-> "Link updated successfully.",
             r |-> IF new_long_url # None THEN r ELSE NoCall, wrote |-> TRUE]

\* update_link(custom_name, new_long_url, new_expiry_seconds) on file f,
\* its shorten_url call, if made, returning r, its time.time() reading t: the file
\* afterwards, the message printed, the shorten_url call made (NoCall when
\* none) and whether the file was written.
update_link(f, custom_name, new_long_url, new_expiry_seconds, r, t) ==
    IF ~f.exists
    THEN [file |-> f, msg |-> "History not found.", r |-> NoCall, wrote |-> FALSE]
    ELSE
    LET history == f.history
        k       == FirstMatch(history, custom_name)
    IN  IF k = 0
        THEN [file |-> f, msg |-> "Link not found.", r |-> NoCall, wrote |-> FALSE]
        ELSE IF new_long_url # None /\ ~is_valid_url(new_long_url[1])
        THEN [file |-> f, msg |-> "New URL is not valid.", r |-> NoCall,
              wrote |-> FALSE]
        ELSE
        LET e1 == IF new_long_url # None
                  THEN [history[k] EXCEPT !.long_url = new_long_url[1],
                                          !.short_url = r.short_url]
                  ELSE history[k]
            e2 == IF new_expiry_seconds # None
                  THEN [e1 EXCEPT !.expiry_timestamp = Some(t + new_expiry_seconds[1])]
                  ELSE e1
        IN  [file |-> [exists |-> TRUE, history |-> [history EXCEPT ![k] = e2]],
             msg |-> "Link updated successfully.",
             r |-> IF new_long_url # None THEN r ELSE NoCall, wrote |-> TRUE]


\* ------------------------------------------------------------------ inputs
URL_A      == <<"h", "t", "t", "p", ":", "/", "/", "a", ".", "b">>
URL_C      == <<"f", "t", "p", ":", "/", "/", "c">>
NOT_A_URL  == <<"n", "o", "t", " ", "a", " ", "u", "r", "l">>
NO_SCHEME  == <<"/", "/", "c">>
NO_NETLOC  == <<"m", "a", "i", "l", "t", "o", ":", "x">>
BAD_IPV6   == <<"h", "t", "t", "p", ":", "/", "/", "[", "a">>
EMPTY      == <<>>

\* Texts a caller can pass to shorten_url or hold in the clipboard.
Texts == {URL_A, URL_C, NOT_A_URL, NO_SCHEME, NO_NETLOC, BAD_IPV6, EMPTY}

\* The outcomes the menu runs meet: the endpoint answers or is unreachable.
MenuOutcomes == {OkBody, ConnFail}

\* The outcomes of the requests of one shorten_url call, in order.
Responses == UNION {[1..n -> MenuOutcomes] : n \in 0..MaxAttempts}

\* Every way shorten_url(u) can return, over the outcomes of its requests.
ShortenResults ==
    [u \in Texts |->
        {Result(shorten_url(u, resp)) :
            resp \in {x \in Responses : Served(shorten_url(u, x), x)}}]

\* What the user of a run types (after strip()) at the prompts of "Shorten
\* URL" (urls, names, seconds) and of "Update Link" (new_urls, update_names,
\* new_seconds), what the clipboard holds, and up to which history length the
\* run appends.  A run with the plain inputs fills the history past its bound
\* with entries that expire or not; a run with the varied ones names its
\* entries and updates them; a run with the timed ones creates entries that
\* expire within the second or in a little more than an hour.
Plain ==
    [urls |-> {URL_A, EMPTY}, names |-> {EMPTY}, seconds |-> {EMPTY, <<"1">>},
     new_urls |-> {URL_C, EMPTY}, update_names |-> {EMPTY, <<"b">>},
     new_seconds |-> {EMPTY, <<"1">>},
     clips |-> {URL_A, NOT_A_URL}, room |-> MAX_HISTORY_SIZE + 1]
Varied ==
    [urls |-> {URL_A, NOT_A_URL, EMPTY}, names |-> {EMPTY, <<"a">>},
     seconds |-> {EMPTY, <<"0">>, <<"x">>},
     new_urls |-> {URL_C, NOT_A_URL, EMPTY}, update_names |-> {EMPTY, <<"a">>, <<"b">>},
     new_seconds |-> {EMPTY, <<"0">>, <<"1">>, <<"x">>},
     clips |-> Texts \ {URL_C}, room |-> WideRoom]
Timed ==
    [urls |-> {URL_A}, names |-> {EMPTY},
     seconds |-> {EMPTY, <<"1">>, <<"3", "6", "0", "1">>},
     new_urls |-> {EMPTY}, update_names |-> {EMPTY}, new_seconds |-> {EMPTY},
     clips |-> {NOT_A_URL}, room |-> WideRoom + 1]

\* `input().strip() or None`
OrNone(s) == IF TruthyStr(s) THEN Some(s) ELSE None

\* `int(s) if s.isdigit() else None`
IntOrNone(s) == IF IsDigit(s) THEN Some(ParseInt(s)) ELSE None

\* ------------------------------------------------------------------- state
VARIABLES
    file,    \* url_history.json
    now,     \* time.time()
    pc,      \* main_menu: "loop" and "other_loop" before a panel is printed,
             \* "menu", "prompt_url" and "other" waiting for input, "exited"
    ev,      \* the last step taken: operation, file before it, time, arguments,
             \* shorten_url call made, whether it wrote the file, output
    typed,   \* the inputs of this run
    streak,  \* the number of entries appended since the last update_link or
             \* delete_expired_links
    recent,  \* the last MAX_HISTORY_SIZE of those entries, oldest first
    sh       \* the frame of a shorten_url call made on its own

vars == <<file, now, pc, ev, typed, streak, recent, sh>>

Ev(op, before, t, args, r, wrote, out) ==
    [op |-> op, before |-> before, t |-> t, args |-> args, r |-> r,
     wrote |-> wrote, out |-> out]

Nav(op, msg) == Ev(op, NoFile, 0, <<>>, NoCall, FALSE, Out(msg, <<>>))

IdleFrame == [ShEntry(<<>>) EXCEPT !.pc = "idle"]

Init ==
    /\ file \in {NoFile, [exists |-> TRUE, history |-> <<>>]}
    /\ now = 1
    /\ pc = "loop"
    /\ ev = Nav("start", "SHORT LINK")
    /\ typed \in {Plain, Varied, Timed}
    /\ streak = 0
    /\ recent = <<>>
    /\ sh = IdleFrame

\* The entries appended since the last update_link or delete_expired_links,
\* after one more.
Noted(entry) ==
    /\ streak' = streak + 1
    /\ recent' = IF Len(recent) = MAX_HISTORY_SIZE
                 THEN Append(Tail(recent), entry) ELSE Append(recent, entry)

Forgotten == streak' = 0 /\ recent' = <<>>

\* The run appends one more entry.
Room == streak < MaxStreak /\ Len(file.history) < typed.room

\* ----------------------------------------------------------------- main_menu
\* The head of the menu loop: print the panel, wait for a choice.
MenuPanel ==
    /\ pc = "loop"
    /\ pc' = "menu"
    /\ ev' = Nav("panel", "URL SHORTENER - @T7C")
    /\ UNCHANGED <<file, now, typed, streak, recent, sh>>

\* choice "1": enter the URL prompt loop.
MenuShorten ==
    /\ pc = "menu"
    /\ pc' = "prompt_url"
    /\ ev' = Nav("menu_shorten", "")
    /\ UNCHANGED <<file, now, typed, streak, recent, sh>>

\* One round of the URL prompt loop of choice "1"; on a valid URL the rest of
\* the branch: name and seconds prompts, shorten_url, save_to_history.
PromptUrl ==
    /\ pc = "prompt_url"
    /\ \E long_url \in typed.urls :
         IF TruthyStr(long_url) /\ is_valid_url(long_url)
         THEN \E name \in typed.names, seconds \in typed.seconds,
                 r \in ShortenResults[long_url] :
                LET custom_name == OrNone(name)
                    expiry_seconds == IntOrNone(seconds)
                    args == [long_url |-> long_url, custom_name |-> custom_name,
                             expiry_seconds |-> expiry_seconds]
                IN  /\ ev' = Ev("shorten", file, now, args, r,
                                ~Contains(r.short_url, STR_ERROR),
                                Out("Shortened URL", <<r.short_url>>))
                    /\ IF ~Contains(r.short_url, STR_ERROR)
                       THEN /\ Room
                            /\ file' = save_to_history(file, long_url, r.short_url,
                                                       custom_name, expiry_seconds, now)
                            /\ Noted(NewEntry(long_url, r.short_url, custom_name,
                                              expiry_seconds, now))
                       ELSE UNCHANGED <<file, streak, recent>>
                    /\ pc' = "loop"
         ELSE /\ ev' = Ev("prompt_url", file, now, [long_url |-> long_url], NoCall,
                          FALSE,
                          Out(IF ~TruthyStr(long_url) THEN "URL cannot be empty."
                              ELSE "Invalid URL format.", <<>>))
              /\ UNCHANGED <<file, pc, streak, recent>>
    /\ UNCHANGED <<now, typed, sh>>

\* show_history writing back the history without the entries it skipped.
MenuShowHistory_Prunes ==
    /\ pc = "menu"
    /\ pc' = "loop"
    /\ ev' = Ev("show_history", file, now, <<>>, NoCall, file.exists,
                show_history(file, now))
    /\ file' = delete_expired_links(file, now)
    /\ UNCHANGED <<now, typed, streak, recent, sh>>

\* choice "2"
MenuShowHistory ==
    /\ pc = "menu"
    /\ pc' = "loop"
    /\ ev' = Ev("show_history", file, now, <<>>, NoCall, FALSE,
                show_history(file, now))
    /\ UNCHANGED <<file, now, typed, streak, recent, sh>>

\* choice "3"
MenuUpdateLink ==
    /\ pc = "menu"
    /\ pc' = "loop"
    /\ \E custom_name \in typed.update_names :
         IF TruthyStr(custom_name)
         THEN \E url \in typed.new_urls, seconds \in typed.new_seconds :
                LET new_long_url == OrNone(url)
                    new_expiry_seconds == IntOrNone(seconds)
                    args == [custom_name |-> custom_name, new_long_url |-> new_long_url,
                             new_expiry_seconds |-> new_expiry_seconds]
                IN  \E r \in ShortenResults[url] :
                      LET u == update_link(file, custom_name, new_long_url,
                                           new_expiry_seconds, r, now)
                      IN  /\ file' = u.file
                          /\ ev' = Ev("update_link", file, now, args, u.r, u.wrote,
                                      Out(u.msg, <<>>))
                          /\ Forgotten
         ELSE /\ ev' = Nav("menu_update_noname", "Custom name cannot be empty.")
              /\ UNCHANGED <<file, streak, recent>>
    /\ UNCHANGED <<now, typed, sh>>

\* choice "4"
MenuDeleteExpired ==
    /\ pc = "menu"
    /\ pc' = "loop"
    /\ file' = delete_expired_links(file, now)
    /\ ev' = Ev("delete_expired_links", file, now, <<>>, NoCall, file.exists,
                Out(IF ~file.exists THEN "History not found." ELSE "", <<>>))
    /\ Forgotten
    /\ UNCHANGED <<now, typed, sh>>

\* shorten_url_from_clipboard saving whatever shorten_url returned.
MenuClipboard_SaveAlways ==
    /\ pc = "menu"
    /\ pc' = "loop"
    /\ \E long_url \in typed.clips :
         IF ~is_valid_url(long_url)
         THEN /\ ev' = Ev("clipboard", file, now, [long_url |-> long_url], NoCall,
                          FALSE,
                          Out("Clipboard does not contain a valid URL.", <<>>))
              /\ UNCHANGED <<file, streak, recent>>
         ELSE \E r \in ShortenResults[long_url] :
                /\ ev' = Ev("clipboard", file, now, [long_url |-> long_url], r,
                            TRUE, Out("Shortened URL", <<r.short_url>>))
                /\ Room
                /\ file' = save_to_history(file, long_url, r.short_url,
                                           None, None, now)
                /\ Noted(NewEntry(long_url, r.short_url, None, None, now))
    /\ UNCHANGED <<now, typed, sh>>

\* choice "5": shorten_url_from_clipboard()
MenuClipboard ==
    /\ pc = "menu"
    /\ pc' = "loop"
    /\ \E long_url \in typed.clips :
         IF ~is_valid_url(long_url)
         THEN /\ ev' = Ev("clipboard", file, now, [long_url |-> long_url], NoCall,
                          FALSE,
                          Out("Clipboard does not contain a valid URL.", <<>>))
              /\ UNCHANGED <<file, streak, recent>>
         ELSE \E r \in ShortenResults[long_url] :
                /\ ev' = Ev("clipboard", file, now, [long_url |-> long_url], r,
                            ~Contains(r.short_url, STR_ERROR),
                            Out("Shortened URL", <<r.short_url>>))
                /\ IF ~Contains(r.short_url, STR_ERROR)
                   THEN /\ Room
                        /\ file' = save_to_history(file, long_url, r.short_url,
                                                   None, None, now)
                        /\ Noted(NewEntry(long_url, r.short_url, None, None, now))
                   ELSE UNCHANGED <<file, streak, recent>>
    /\ UNCHANGED <<now, typed, sh>>

\* choice "6"
MenuRemind ==
    /\ pc = "menu"
    /\ pc' = "loop"
    /\ ev' = Ev("remind_expiring_links", file, now, <<>>, NoCall, FALSE,
                remind_expiring_links(file, now))
    /\ UNCHANGED <<file, now, typed, streak, recent, sh>>

\* choice "7": enter the Other submenu.
MenuOther ==
    /\ pc = "menu"
    /\ pc' = "other_loop"
    /\ ev' = Nav("menu_other", "")
    /\ UNCHANGED <<file, now, typed, streak, recent, sh>>

\* choice "8"
MenuExit ==
    /\ pc = "menu"
    /\ pc' = "exited"
    /\ ev' = Nav("menu_exit", "Exiting the application...")
    /\ UNCHANGED <<file, now, typed, streak, recent, sh>>

\* any other choice
MenuInvalid ==
    /\ pc = "menu"
    /\ pc' = "loop"
    /\ ev' = Nav("menu_invalid", "Invalid choice, please try again.")
    /\ UNCHANGED <<file, now, typed, streak, recent, sh>>

\* The head of the Other submenu loop.
OtherPanel ==
    /\ pc = "other_loop"
    /\ pc' = "other"
    /\ ev' = Nav("other_panel", "Other")
    /\ UNCHANGED <<file, now, typed, streak, recent, sh>>

\* The Other submenu taking "8" for Exit as the top-level menu does.
OtherStay_ExitOn8 ==
    /\ pc = "other"
    /\ \E sub_choice \in {"1", "2", "3", "8", ""} :
         /\ pc' = IF sub_choice = "8" THEN "exited" ELSE "other_loop"
         /\ ev' = Nav("other_" \o sub_choice,
                      CASE sub_choice = "1" -> "About"
                        [] sub_choice = "2" -> IF file.exists THEN "History saved at"
                                               ELSE "History not found."
                        [] sub_choice = "3" -> "Usega functionality not implemented in this version."
                        [] sub_choice = "8" -> "Exiting the application..."
                        [] OTHER -> "Invalid choice, please try again.")
    /\ UNCHANGED <<file, now, typed, streak, recent, sh>>

\* The Other submenu: sub_choice "1" show_about(), "2" get_file(), "3"
\* usega(), anything but "1".."4" the error notice.
OtherStay ==
    /\ pc = "other"
    /\ pc' = "other_loop"
    /\ \E sub_choice \in {"1", "2", "3", "8", ""} :
         ev' = Nav("other_" \o sub_choice,
                   CASE sub_choice = "1" -> "About"
                     [] sub_choice = "2" -> IF file.exists THEN "History saved at"
                                            ELSE "History not found."
                     [] sub_choice = "3" -> "Usega functionality not implemented in this version."
                     [] OTHER -> "Invalid choice, please try again.")
    /\ UNCHANGED <<file, now, typed, streak, recent, sh>>

\* sub_choice "4"
OtherBack ==
    /\ pc = "other"
    /\ pc' = "loop"
    /\ ev' = Nav("other_back", "")
    /\ UNCHANGED <<file, now, typed, streak, recent, sh>>

\* A second passes while the program waits for input.
Tick ==
    /\ pc \in {"menu", "prompt_url", "other"}
    /\ now < MaxTime
    /\ now' = now + 1
    /\ UNCHANGED <<file, pc, ev, typed, streak, recent, sh>>

Next ==
    \/ MenuPanel \/ MenuShorten \/ PromptUrl \/ MenuShowHistory \/ MenuUpdateLink
    \/ MenuDeleteExpired \/ MenuClipboard \/ MenuRemind \/ MenuOther
    \/ MenuExit \/ MenuInvalid \/ OtherPanel \/ OtherStay \/ OtherBack \/ Tick

Spec == Init /\ [][Next]_vars

\* ------------------------------------------------- shorten_url on its own
\* A caller invokes shorten_url(long_url) directly; the call then runs one
\* statement at a time.
InitCall ==
    /\ file = NoFile
    /\ now = 1
    /\ pc = "loop"
    /\ ev = Nav("start", "SHORT LINK")
    /\ typed = Plain
    /\ streak = 0
    /\ recent = <<>>
    /\ sh = IdleFrame

CallShorten ==
    /\ sh.pc \in {"idle", "returned"}
    /\ \E long_url \in Texts : sh' = ShEntry(long_url)
    /\ UNCHANGED <<file, now, pc, ev, typed, streak, recent>>

StepValidate ==
    /\ sh.pc = "entry"
    /\ sh' = ShValidate(sh)
    /\ UNCHANGED <<file, now, pc, ev, typed, streak, recent>>

StepRequest ==
    /\ sh.pc = "request"
    /\ \E o \in Outcomes : sh' = ShRequest(sh, o)
    /\ UNCHANGED <<file, now, pc, ev, typed, streak, recent>>

StepSleep ==
    /\ sh.pc = "sleep"
    /\ sh' = ShSleep(sh)
    /\ UNCHANGED <<file, now, pc, ev, typed, streak, recent>>

NextCall == CallShorten \/ StepValidate \/ StepRequest \/ StepSleep

SpecCall == InitCall /\ [][NextCall]_vars

\* The statements of a call always get to run.
FairSpecCall ==
    SpecCall /\ WF_vars(StepValidate) /\ WF_vars(StepRequest) /\ WF_vars(StepSleep)

\* ------------------------------------------------------------------ claims
\* The entries of a history, as a set.
Entries(h) == {h[k] : k \in 1..Len(h)}

\* An append of the menu ("Shorten URL" or clipboard) that saved its entry.
Saved == ev.op \in {"shorten", "clipboard"} /\ ev.wrote

\* C1: in every state reachable from a missing or empty history file the
\* stored history holds at most MAX_HISTORY_SIZE = 5 entries.
C1_HistoryBounded == Len(file.history) <= 5

\* An entry was appended to a full history.
C1_Witness ==
    Saved /\ Len(ev.before.history) = 5 /\ Len(file.history) = 5

\* C2: after more than 5 appends in a row the stored history is exactly the 5
\* most recently appended entries, oldest first.
C2_MostRecentFive ==
    streak > 5 =>
        /\ file.history = recent
        /\ Saved => /\ file.history[5] = recent[5]
                    /\ SubSeq(file.history, 1, 4) = Tail(ev.before.history)

\* The sixth append or a later one, the evicted entry differing from the new one.
C2_Witness ==
    /\ Saved /\ streak > 5
    /\ ev.before.history[1] # file.history[5]
    /\ ev.before.history[1] # file.history[1]

\* C3: delete_expired_links at time t leaves exactly the entries with no
\* expiry_timestamp or with expiry_timestamp >= t, in their original order.
C3_PruneExact ==
    ev.op = "delete_expired_links" /\ ev.before.exists =>
        LET Stays(e) == e.expiry_timestamp = None \/ e.expiry_timestamp[1] >= ev.t
        IN  /\ file.exists
            /\ file.history = SelectSeq(ev.before.history, Stays)

\* A prune that removed an entry and kept two, one without expiry and one
\* expiring at the very time of the call.
C3_Witness ==
    /\ ev.op = "delete_expired_links"
    /\ Len(file.history) < Len(ev.before.history)
    /\ \E j, k \in 1..Len(file.history) :
         /\ j # k
         /\ file.history[j].expiry_timestamp = None
         /\ file.history[k].expiry_timestamp = Some(ev.t)

\* C4: delete_expired_links is idempotent: run again at the same time on the
\* file it left, it leaves that file as it is.
C4_PruneIdempotent ==
    ev.op = "delete_expired_links" =>
        delete_expired_links(file, ev.t) = file

\* A prune that removed two entries next to each other and kept another.
C4_Witness ==
    /\ ev.op = "delete_expired_links"
    /\ file.history # <<>>
    /\ \E k \in 1..(Len(ev.before.history) - 1) :
         /\ ev.before.history[k] \notin Entries(file.history)
         /\ ev.before.history[k + 1] \notin Entries(file.history)

\* The name given to update_link is the custom_name of a stored entry.
NameStored ==
    /\ ev.before.exists
    /\ \E e \in Entries(ev.before.history) : e.custom_name = Some(ev.args.custom_name)

\* C5: update_link with a name no stored entry has leaves the file as it was,
\* writes nothing and makes no shortening request.
C5_UpdateNoMatch ==
    ev.op = "update_link" /\ ~NameStored =>
        file = ev.before /\ ~ev.wrote /\ ev.r.calls = 0

\* An update by a name not stored, on a history with another named entry,
\* with a valid new URL and new seconds.
C5_Witness ==
    /\ ev.op = "update_link" /\ ~NameStored
    /\ \E e \in Entries(ev.before.history) : e.custom_name # None
    /\ ev.args.new_long_url # None /\ is_valid_url(ev.args.new_long_url[1])
    /\ ev.args.new_expiry_seconds # None

\* C6: update_link with a stored name and an invalid new URL leaves the file
\* as it was, also when new seconds are given, and makes no shortening request.
C6_UpdateInvalidUrl ==
    /\ ev.op = "update_link" /\ NameStored
    /\ ev.args.new_long_url # None /\ ~is_valid_url(ev.args.new_long_url[1])
    => file = ev.before /\ ~ev.wrote /\ ev.r.calls = 0

\* Such an update with new seconds that differ from the entry's expiry.
C6_Witness ==
    /\ ev.op = "update_link" /\ NameStored
    /\ ev.args.new_long_url # None /\ ~is_valid_url(ev.args.new_long_url[1])
    /\ ev.args.new_expiry_seconds # None
    /\ \A e \in Entries(ev.before.history) :
         e.expiry_timestamp # Some(ev.t + ev.args.new_expiry_seconds[1])

\* C7: shorten_url on an input that fails the validator returns "Invalid URL
\* format." and makes no request and no sleep.
C7_InvalidNoRequest ==
    sh.pc \notin {"idle", "entry"} /\ ~is_valid_url(sh.long_url) =>
        /\ sh.pc = "returned"
        /\ sh.short_url = <<"I", "n", "v", "a", "l", "i", "d", " ", "U", "R", "L", " ",
                            "f", "o", "r", "m", "a", "t", ".">>
        /\ sh.calls = 0 /\ sh.sleeps = 0

\* shorten_url("not a url") has returned.
C7_Witness ==
    sh.pc = "returned" /\ sh.long_url = NOT_A_URL

HasError(text) == Contains(text, <<"E", "r", "r", "o", "r">>)

\* C8: shorten_url on a valid URL makes at most 3 attempts and returns: at the
\* first attempt whose text has no "Error", with that text, else after the
\* third attempt with the text of the third.
C8_RetryPolicy ==
    /\ [](sh.pc # "idle" /\ is_valid_url(sh.long_url) =>
            /\ sh.calls <= 3 /\ Len(sh.texts) = sh.calls
            /\ \A k \in 1..(sh.calls - 1) : HasError(sh.texts[k])
            /\ sh.pc = "returned" =>
                  /\ sh.calls >= 1
                  /\ sh.short_url = sh.texts[sh.calls]
                  /\ ~HasError(sh.short_url) \/ sh.calls = 3)
    /\ (sh.pc \in {"entry", "request", "sleep"} ~> sh.pc = "returned")

\* Error, error, clean: three requests, the clean text returned.
C8_Witness ==
    /\ sh.pc = "returned" /\ sh.calls = 3
    /\ HasError(sh.texts[1]) /\ HasError(sh.texts[2])
    /\ ~HasError(sh.texts[3]) /\ sh.short_url = sh.texts[3]

\* C9: one shorten_url call sleeps at most twice, 2 seconds in all, and only
\* between attempts, never after the last one.
C9_SleepsBetweenAttempts ==
    /\ sh.sleeps * SleepSeconds <= 2
    /\ sh.pc = "returned" /\ sh.calls >= 1 => sh.sleeps = sh.calls - 1

\* C10: show_history shows an entry with an expiry at every time up to and
\* including its expiry_timestamp and hides it at every later time, leaving
\* it stored; delete_expired_links at a later time removes it.
C10_ExpiryLifecycle ==
    /\ ev.op = "show_history" /\ ev.before.exists =>
         LET Shown(e) == e.expiry_timestamp = None \/ ev.t <= e.expiry_timestamp[1]
             shown == SelectSeq(ev.before.history, Shown)
         IN  /\ ev.out.rows = [k \in 1..Len(shown) |-> Row(shown[k])]
             /\ file = ev.before
    /\ ev.op = "delete_expired_links" =>
         \A e \in Entries(file.history) :
            e.expiry_timestamp = None \/ e.expiry_timestamp[1] >= ev.t

\* show_history with one entry past its expiry, hidden, and one at its expiry,
\* shown.
C10_Witness ==
    /\ ev.op = "show_history"
    /\ \E e \in Entries(file.history) :
         /\ e.expiry_timestamp # None /\ e.expiry_timestamp[1] < ev.t
         /\ \A k \in 1..Len(ev.out.rows) : ev.out.rows[k] # Row(e)
    /\ \E e \in Entries(file.history) :
         /\ e.expiry_timestamp = Some(ev.t)
         /\ \E k \in 1..Len(ev.out.rows) : ev.out.rows[k] = Row(e)

\* C11: "Shorten URL" stores expiry_timestamp = now + expiry_seconds for every
\* all-digit seconds input, "0" included, and no expiry only when the input is
\* not all digits.
C11_CreateExpiry ==
    ev.op = "shorten" /\ ev.wrote =>
        LET e == file.history[Len(file.history)]
            s == ev.args.expiry_seconds
        IN  e.expiry_timestamp = IF s # None THEN Some(ev.t + s[1]) ELSE None

\* C12: "Shorten URL" and shorten_url_from_clipboard append exactly one
\* record, holding the URL and the text shorten_url returned, when that text
\* has no "Error"; they leave the stored history as it was when the text has
\* "Error", which takes three failed attempts, or when the URL is invalid.
C12_SaveOnlyOnSuccess ==
    /\ ev.op \in {"shorten", "clipboard"} =>
         IF is_valid_url(ev.args.long_url) /\ ~HasError(ev.r.short_url)
         THEN LET last  == file.history[Len(file.history)]
                  grown == Append(ev.before.history, last)
              IN  /\ file.exists /\ file.history # <<>>
                  /\ last.long_url = ev.args.long_url
                  /\ last.short_url = ev.r.short_url
                  /\ file.history = IF Len(grown) > 5 THEN Tail(grown) ELSE grown
         ELSE /\ file = ev.before
              /\ is_valid_url(ev.args.long_url) => ev.r.calls = 3
    /\ ev.op = "prompt_url" => file = ev.before

\* The clipboard holds a valid URL, all three attempts fail: the history, not
\* empty, stays as it was.
C12_Witness ==
    /\ ev.op = "clipboard" /\ is_valid_url(ev.args.long_url)
    /\ HasError(ev.r.short_url) /\ ev.r.calls = 3
    /\ file.history # <<>> /\ file = ev.before

\* C13: the menu loop ends only by choice "8" typed at the top-level menu and
\* nothing runs after it; the Other submenu is left only by its choice "4",
\* back to the top-level menu, its choice "8" being an invalid choice that
\* does not exit; an unrecognised choice at either level stays at that level
\* and leaves the stored history as it was.
C13_MenuMachine ==
    [][/\ pc' = "exited" /\ pc # "exited" => pc = "menu" /\ ev'.op = "menu_exit"
       /\ pc = "exited" => pc' = "exited" /\ file' = file
       /\ pc \in {"other", "other_loop"} /\ pc' \notin {"other", "other_loop"} =>
            pc = "other" /\ pc' = "loop" /\ ev'.op = "other_back"
       /\ pc = "other" /\ ev'.op \in {"other_8", "other_"} =>
            pc' = "other_loop" /\ file' = file
       /\ pc = "menu" /\ ev'.op = "menu_invalid" => pc' = "loop" /\ file' = file
      ]_vars

\* "8" was typed in the Other submenu of a run with a stored history: the
\* program is still in the submenu.
C13_Witness ==
    ev.op = "other_8" /\ pc = "other_loop" /\ file.history # <<>>

C15_UpdateFirstOnly ==
    ev.op = "update_link" /\ ev.wrote =>
        LET h == ev.before.history
            Named(j) == h[j].custom_name = Some(ev.args.custom_name)
        IN  /\ Len(file.history) = Len(h)
            /\ \E k \in 1..Len(h) :
                 /\ Named(k) /\ \A j \in 1..(k - 1) : ~Named(j)
                 /\ \A j \in 1..Len(h) : j # k => file.history[j] = h[j]
                 /\ file.history[k].custom_name = h[k].custom_name
                 /\ file.history[k].timestamp = h[k].timestamp

\* Two stored entries of the same name, an update by that name with a new URL
\* and new seconds: the first one changed, the second one did not.
C15_Witness ==
    /\ ev.op = "update_link" /\ ev.wrote
    /\ Len(file.history) = 2
    /\ ev.before.history[1].custom_name = Some(ev.args.custom_name)
    /\ ev.before.history[2].custom_name = Some(ev.args.custom_name)
    /\ file.history[1].long_url # ev.before.history[1].long_url
    /\ file.history[1].expiry_timestamp # ev.before.history[1].expiry_timestamp
    /\ file.history[2] = ev.before.history[2]

\* C16: in every state of the menu loop every stored record has a long_url
\* that passes the validator: it parses, with a scheme and a network location.
C16_StoredUrlsValid ==
    \A e \in Entries(file.history) :
        LET result == urlparse(e.long_url)
        IN  ~result.error /\ result.scheme # <<>> /\ result.netloc # <<>>

\* An update with a new URL went through on a history that also holds a
\* record created from the menu.
C16_Witness ==
    /\ ev.op = "update_link" /\ ev.wrote /\ ev.args.new_long_url # None
    /\ \E e \in Entries(file.history) : e.long_url = ev.args.new_long_url[1]
    /\ \E e \in Entries(file.history) : e.long_url # ev.args.new_long_url[1]

\* The index of the first entry of the history before update_link that has
\* the name given to it.
Matched ==
    CHOOSE k \in 1..Len(ev.before.history) :
        /\ ev.before.history[k].custom_name = Some(ev.args.custom_name)
        /\ \A j \in 1..(k - 1) :
              ev.before.history[j].custom_name # Some(ev.args.custom_name)

\* The update names a stored entry and its new URL, if any, is valid (an
\* invalid one aborts the update).
Applies ==
    /\ ev.op = "update_link" /\ NameStored
    /\ ev.args.new_long_url = None \/ is_valid_url(ev.args.new_long_url[1])

C18_UpdateStoresResult ==
    Applies /\ ev.args.new_long_url # None =>
        LET new == file.history[Matched]
        IN  /\ ev.wrote /\ file.exists
            /\ new.long_url = ev.args.new_long_url[1]
            /\ new.short_url = ev.r.short_url
            /\ ev.r.calls >= 1
            /\ HasError(ev.r.short_url) => ev.r.calls = 3

\* An update whose three requests failed: the entry, which had a short URL,
\* is stored with the error text in its place.
C18_Witness ==
    /\ Applies /\ ev.args.new_long_url # None
    /\ ev.r.calls = 3 /\ HasError(ev.r.short_url)
    /\ ~HasError(ev.before.history[Matched].short_url)
    /\ HasError(file.history[Matched].short_url)

\* C19: show_history and remind_expiring_links leave the history file as it
\* was, missing if it was missing, and write nothing: an entry show_history
\* hides for being expired stays stored.
C19_ReadOnly ==
    ev.op \in {"show_history", "remind_expiring_links"} =>
        file = ev.before /\ ~ev.wrote

\* show_history over a history of two or more entries, all of them expired:
\* no row is shown and all of them are still stored.
C19_Witness ==
    /\ ev.op = "show_history"
    /\ Len(file.history) >= 2 /\ ev.out.rows = <<>>
    /\ \A e \in Entries(file.history) :
         e.expiry_timestamp # None /\ e.expiry_timestamp[1] < ev.t

\* C20: an append onto a stored history of 5 entries, expired ones counted,
\* evicts the oldest stored entry and no other, whatever the expiry of the
\* entries: the four newer ones stay, in order, before the new one.
C20_EvictOldest ==
    Saved /\ Len(ev.before.history) = 5 =>
        /\ Len(file.history) = 5
        /\ \A k \in 1..4 : file.history[k] = ev.before.history[k + 1]
        /\ file.history[5].timestamp = [ctime |-> ev.t]

\* An append onto five stored entries of which the oldest never expires and
\* the others are expired: the oldest is gone, the expired ones are stored.
C20_Witness ==
    /\ Saved /\ Len(ev.before.history) = 5
    /\ ev.before.history[1].expiry_timestamp = None
    /\ ev.before.history[1] \notin Entries(file.history)
    /\ \A k \in 2..5 :
         /\ ev.before.history[k].expiry_timestamp # None
         /\ ev.before.history[k].expiry_timestamp[1] < ev.t
         /\ ev.before.history[k] \in Entries(file.history)

====
